---- MODULE Spec2Model ----
(***************************************************************************)
(* SimpleVector<Type> (simple_vector.h) as a state machine over two vector *)
(* objects "a" and "b" of an integer-like element type.                    *)
(*                                                                         *)
(* A vector is a record [items, size, capacity]: items is the array owned  *)
(* by items_ (Len(items) is the number of slots actually allocated), size  *)
(* and capacity are the counters size_ and capacity_.  Slot i of the C++   *)
(* array (0-based) is items[i + 1].                                        *)
(*                                                                         *)
(* An access past the end of the allocated array is undefined behaviour.   *)
(* Its outcomes are modelled as: the process aborts; or it goes on, a      *)
(* load past the end yields whatever the adjacent memory holds (any value) *)
(* and a store past the end leaves the vector's own array untouched and,   *)
(* when another vector is alive, may overwrite a slot of that one's array. *)
(***************************************************************************)
EXTENDS Integers, Sequences, FiniteSets, TLC

\* Largest capacity a vector reaches when the program uses one object.
MaxCap == 4
\* Largest capacity a vector reaches when the program uses two objects.
MaxPair == 2
\* Element values: Type{} and one value that differs from it.
Values == {0, 1}
\* Type{} for an integer-like Type.
Default == 0
Vecs == {"a", "b"}

Max(x, y) == IF x > y THEN x ELSE y

\* Every sequence over Values of length exactly k: what the memory that
\* follows an array may hold.
Adjacent(k) == [1..k -> Values]

\* Every sequence over Values of length at most k.
SeqsUpTo(k) == UNION {[1..n -> Values] : n \in 0..k}

\* How many slots past the end of buf a load of slots [0, last) touches.
Need(buf, last) == IF last > Len(buf) THEN last - Len(buf) ELSE 0

\* ArrayPtr<Type>(n): an owned array of n default-constructed elements.
ArrayPtr(n) == [i \in 1..n |-> Default]

\* std::copy / std::move / std::copy_backward / std::move_backward of
\* src[first, last) to dst[d_first, ...): for an integer-like Type all four
\* store src[first + k] in dst[d_first + k] (the backward forms read each
\* slot before they overwrite it).  Stores past the end of dst leave dst as
\* it is; CopyPast tells what they stored there.
CopyRange(src, first, last, dst, d_first) ==
    [i \in 1..Len(dst) |->
        IF d_first < i /\ i <= d_first + (last - first)
        THEN src[first + (i - d_first)]
        ELSE dst[i]]

\* The values CopyRange stores past the end of dst.
CopyPast(src, first, last, dst, d_first) ==
    {src[first + k + 1] : k \in {k \in 0..(last - first - 1) : d_first + k >= Len(dst)}}

\* items_[index] = value
Store(buf, index, value) ==
    IF index < Len(buf) THEN [buf EXCEPT ![index + 1] = value] ELSE buf

\* SimpleVector::Fill(first, last): *it = Type() for every it in [first, last).
Fill(buf, first, last) ==
    [i \in 1..Len(buf) |-> IF first < i /\ i <= last THEN Default ELSE buf[i]]

\* SimpleVector(): empty array, size_ = capacity_ = 0.
Empty == [items |-> <<>>, size |-> 0, capacity |-> 0]

\* SimpleVector(size, value)
CtorSizeValue(n, value) ==
    [items |-> CopyRange([i \in 1..n |-> value], 0, n, ArrayPtr(n), 0),
     size |-> n, capacity |-> n]

\* SimpleVector(size): delegates to SimpleVector(size, Type{}).
CtorSize(n) == CtorSizeValue(n, Default)

\* SimpleVector(std::initializer_list<Type> init)
CtorInitList(init) ==
    [items |-> CopyRange(init, 0, Len(init), ArrayPtr(Len(init)), 0),
     size |-> Len(init), capacity |-> Len(init)]

\* SimpleVector(const SimpleVector& other); g is the memory after other's array.
CtorCopy(other, g) ==
    [items |-> CopyRange(other.items \o g, 0, other.size, ArrayPtr(other.size), 0),
     size |-> other.size, capacity |-> other.capacity]

\* swap that exchanges size_ and items_ and forgets capacity_.
SwapKeepsCapacity(this, other) ==
    <<[items |-> other.items, size |-> other.size, capacity |-> this.capacity],
      [items |-> this.items, size |-> this.size, capacity |-> other.capacity]>>

\* swap(other): the pair <<this, other>> after the call.
Swap(this, other) ==
    <<[items |-> other.items, size |-> other.size, capacity |-> other.capacity],
      [items |-> this.items, size |-> this.size, capacity |-> this.capacity]>>

\* A move constructor that copies the counters and the array and leaves the
\* source as it was.
CtorMoveKeepsSource(other) == <<other, other>>

\* SimpleVector(SimpleVector&& other): the pair <<this, other>> after the call.
CtorMove(other) ==
    Swap([items |-> ArrayPtr(other.size), size |-> 0, capacity |-> 0], other)

\* Resize that grows to new_size exactly, without doubling.
ResizeGrowsExactly(V, new_size, g) ==
    IF new_size > V.capacity
    THEN [items |-> CopyRange(V.items \o g, 0, V.size, ArrayPtr(new_size), 0),
          size |-> new_size, capacity |-> new_size]
    ELSE IF new_size > V.size
    THEN [V EXCEPT !.items = Fill(V.items, V.size, V.size + new_size),
                   !.size = new_size]
    ELSE [V EXCEPT !.size = new_size]

\* Resize whose growing branch does not move the old elements over.
ResizeDropsElements(V, new_size, g) ==
    IF new_size > V.capacity
    THEN LET new_capacity == Max(new_size, V.capacity * 2)
         IN [items |-> Fill(ArrayPtr(new_capacity), 0, new_capacity),
             size |-> new_size, capacity |-> new_capacity]
    ELSE IF new_size > V.size
    THEN [V EXCEPT !.items = Fill(V.items, V.size, V.size + new_size),
                   !.size = new_size]
    ELSE [V EXCEPT !.size = new_size]

\* Resize(new_size); g is the memory after the array.
Resize(V, new_size, g) ==
    IF new_size > V.capacity
    THEN LET new_capacity == Max(new_size, V.capacity * 2)
             new_items == Fill(ArrayPtr(new_capacity), 0, new_capacity)
         IN [items |-> CopyRange(V.items \o g, 0, V.size, new_items, 0),
             size |-> new_size, capacity |-> new_capacity]
    ELSE IF new_size <= V.capacity /\ new_size > V.size
    THEN [V EXCEPT !.items = Fill(V.items, V.size, V.size + new_size),
                   !.size = new_size]
    ELSE IF new_size <= V.capacity /\ new_size < V.size
    THEN [V EXCEPT !.size = new_size]
    ELSE V

\* Whether Resize(new_size) touches a slot past the end of the array.
ResizeOob(V, new_size) ==
    IF new_size > V.capacity
    THEN V.size > Len(V.items)
    ELSE IF new_size > V.size
    THEN V.size + new_size > Len(V.items)
    ELSE FALSE

\* The values Resize(new_size) stores past the end of the array.
ResizePast(V, new_size) ==
    IF new_size <= V.capacity /\ new_size > V.size /\ V.size + new_size > Len(V.items)
    THEN {Default}
    ELSE {}

\* PushBack(const Type& item)
PushBack(V, item, g) ==
    IF V.size = V.capacity
    THEN LET R == Resize(V, V.size + 1, g)
         IN [R EXCEPT !.items = Store(R.items, R.size - 1, item)]
    ELSE [V EXCEPT !.items = Store(V.items, V.size, item),
                   !.size = V.size + 1]

\* Whether PushBack touches a slot past the end of the array.
PushBackOob(V) ==
    IF V.size = V.capacity
    THEN ResizeOob(V, V.size + 1)
    ELSE V.size >= Len(V.items)

\* The values PushBack stores past the end of the array.
PushBackPast(V, item) ==
    IF V.size # V.capacity /\ V.size >= Len(V.items) THEN {item} ELSE {}

\* PushBack(Type&& item)
PushBackMove(V, item, g) ==
    IF V.size = V.capacity
    THEN LET R == Resize(V, V.size + 1, g)
         IN [R EXCEPT !.items = Store(R.items, R.size - 1, item)]
    ELSE [V EXCEPT !.items = Store(V.items, V.size, item),
                   !.size = V.size + 1]

\* Insert(pos, const Type& value), pos = begin() + index; g after the array.
Insert(V, index, value, g) ==
    IF V.size = V.capacity
    THEN LET R == Resize(V, V.size + 1, g)
             shifted == CopyRange(R.items, index, R.size, R.items, index + 1)
         IN [R EXCEPT !.items = Store(shifted, index, value)]
    ELSE LET shifted == CopyRange(V.items \o g, index, V.size, V.items, index + 1)
         IN [V EXCEPT !.items = Store(shifted, index, value),
                      !.size = V.size + 1]

\* One past the last slot the suffix shift of Insert on a full vector
\* stores to: copy_backward(items + index, items + size_, items + size_ + 1)
\* after Resize has set size_ to the old size + 1.
ShiftEnd(V) == (V.size + 1) + 1

\* Whether Insert touches a slot past the end of the array.
InsertOob(V, index) ==
    IF V.size = V.capacity
    THEN \/ ResizeOob(V, V.size + 1)
         \/ ShiftEnd(V) > Max(V.size + 1, V.capacity * 2)
    ELSE V.size + 1 > Len(V.items)

\* The values Insert stores past the end of the array.
InsertPast(V, index, value, g) ==
    IF V.size = V.capacity
    THEN LET R == Resize(V, V.size + 1, g)
         IN CopyPast(R.items, index, R.size, R.items, index + 1)
    ELSE CopyPast(V.items \o g, index, V.size, V.items, index + 1)
            \cup (IF index >= Len(V.items) THEN {value} ELSE {})

\* Insert(pos, Type&& value)
InsertMove(V, index, value, g) ==
    IF V.size = V.capacity
    THEN LET R == Resize(V, V.size + 1, g)
             shifted == CopyRange(R.items, index, R.size, R.items, index + 1)
         IN [R EXCEPT !.items = Store(shifted, index, value)]
    ELSE LET shifted == CopyRange(V.items \o g, index, V.size, V.items, index + 1)
         IN [V EXCEPT !.items = Store(shifted, index, value),
                      !.size = V.size + 1]

\* PopBack()
PopBack(V) == [V EXCEPT !.size = V.size - 1]

\* Clear that also gives the array back.
ClearReleasesArray(V) == [items |-> ArrayPtr(0), size |-> 0, capacity |-> 0]

\* Clear()
Clear(V) == [V EXCEPT !.size = 0]

\* operator[](index), read: the element the returned reference designates.
\* The caller keeps index < size_ (the assert).
Index(V, index, g) == (V.items \o g)[index + 1]

\* operator[](index) = value: a store through the returned reference.
IndexPut(V, index, value) == [V EXCEPT !.items = Store(V.items, index, value)]

\* Whether items_[index] lies past the end of the array.
IndexOob(V, index) == index >= Len(V.items)

\* The values a store to items_[index] puts past the end of the array.
IndexPast(V, index, value) == IF index >= Len(V.items) THEN {value} ELSE {}

\* At that checks the index against the capacity instead of the size.
AtChecksCapacity(V, index, g) ==
    IF index >= V.capacity
    THEN [thrown |-> TRUE, value |-> Default]
    ELSE [thrown |-> FALSE, value |-> (V.items \o g)[index + 1]]

\* At(index), read: whether std::out_of_range is thrown, and otherwise the
\* element the returned reference designates.
At(V, index, g) ==
    IF index >= V.size
    THEN [thrown |-> TRUE, value |-> Default]
    ELSE [thrown |-> FALSE, value |-> (V.items \o g)[index + 1]]

\* At(index) = value: a store through the returned reference, if any.
AtPut(V, index, value) ==
    IF index >= V.size
    THEN V
    ELSE [V EXCEPT !.items = Store(V.items, index, value)]

\* Whether At(index) returns a reference past the end of the array.
AtOob(V, index) == index < V.size /\ index >= Len(V.items)

\* Erase that moves the tail from index instead of index + 1.
EraseKeepsElement(V, index, g) ==
    LET mem == V.items \o g
        head == CopyRange(mem, 0, index, ArrayPtr(V.size), 0)
        new_items == CopyRange(mem, index, V.size - 1, head, index)
    IN [V EXCEPT !.items = new_items, !.size = V.size - 1]

\* Erase(pos), pos = begin() + index; g is the memory after the array.
Erase(V, index, g) ==
    LET mem == V.items \o g
        head == CopyRange(mem, 0, index, ArrayPtr(V.size), 0)
        new_items == CopyRange(mem, index + 1, V.size, head, index)
    IN [V EXCEPT !.items = new_items, !.size = V.size - 1]

\* Reserve that allocates the larger array without moving the elements over.
ReserveDropsElements(V, new_capacity, g) ==
    IF new_capacity > V.capacity
    THEN [V EXCEPT !.items = ArrayPtr(new_capacity), !.capacity = new_capacity]
    ELSE V

\* Reserve(new_capacity); g is the memory after the array.
Reserve(V, new_capacity, g) ==
    IF new_capacity > V.capacity
    THEN [V EXCEPT !.items = CopyRange(V.items \o g, 0, V.size,
                                       ArrayPtr(new_capacity), 0),
                   !.capacity = new_capacity]
    ELSE V

\* SimpleVector(ReserveProxyObj): a default-constructed vector, then Reserve.
CtorReserve(capacity_to_reserve) == Reserve(Empty, capacity_to_reserve, <<>>)

\* Whether a load of the live range [0, size) leaves the array
\* (copy constructor, Erase, Reserve, the growing Resize).
LiveOob(V) == V.size > Len(V.items)

\* operator==: std::equal(lhs.begin(), lhs.end(), rhs.begin());
\* gl and gr are the memory after lhs's and rhs's arrays.
Equal(lhs, rhs, gl, gr) ==
    \A i \in 1..lhs.size : (lhs.items \o gl)[i] = (rhs.items \o gr)[i]

\* operator!=
NotEqual(lhs, rhs, gl, gr) == ~Equal(lhs, rhs, gl, gr)

\* Whether operator== loads a slot past the end of either array.
EqualOob(lhs, rhs) ==
    lhs.size > Len(lhs.items) \/ lhs.size > Len(rhs.items)

\* std::lexicographical_compare on the ranges l and r, from position i on.
RECURSIVE LexCompare(_, _, _)
LexCompare(l, r, i) ==
    IF i > Len(l) \/ i > Len(r)
    THEN i > Len(l) /\ i <= Len(r)
    ELSE IF l[i] < r[i] THEN TRUE
    ELSE IF r[i] < l[i] THEN FALSE
    ELSE LexCompare(l, r, i + 1)

\* operator<: std::lexicographical_compare(lhs.begin(), lhs.end(),
\* rhs.begin(), rhs.end()); gl and gr are the memory after the arrays.
Less(lhs, rhs, gl, gr) ==
    LexCompare(SubSeq(lhs.items \o gl, 1, lhs.size),
               SubSeq(rhs.items \o gr, 1, rhs.size), 1)

\* operator<=
LessEq(lhs, rhs, gl, gr) == ~Less(rhs, lhs, gr, gl)

\* operator>
Greater(lhs, rhs, gl, gr) == Less(rhs, lhs, gr, gl)

\* operator>=
GreaterEq(lhs, rhs, gl, gr) == ~Less(lhs, rhs, gl, gr)

\* Whether operator< loads a slot past the end of either array: the two
\* ranges agree as far as both arrays reach and both go on beyond.
LessOob(lhs, rhs) ==
    LET m == IF lhs.size < rhs.size THEN lhs.size ELSE rhs.size
        a == IF Len(lhs.items) < Len(rhs.items) THEN Len(lhs.items)
             ELSE Len(rhs.items)
    IN  m > a /\ \A i \in 1..a : lhs.items[i] = rhs.items[i]

\* operator=(const SimpleVector& rhs); same tells whether rhs is *this.
Assign(this, rhs, same, g) ==
    IF ~same THEN Swap(this, CtorCopy(rhs, g))[1] ELSE this

(***************************************************************************)
(* The state: the two vector objects (alive holds those that are           *)
(* constructed and not yet destroyed), and a record of the last call made: *)
(* its name, the object it was called on (vec) and the other object it     *)
(* involved (other), its arguments (idx: an index, a size or a capacity;   *)
(* val: an element value), the index of the iterator it returned (ret),    *)
(* the result of a comparison or whether At threw (res), whether the call  *)
(* touched memory past the end of an array (oob), and the size and the     *)
(* capacity the object had when a member function was called on it (size0, *)
(* cap0).                                                                  *)
(***************************************************************************)
VARIABLES vec, alive, op

vars == <<vec, alive, op>>

NoCall == [name |-> "none", vec |-> "a", other |-> "a", idx |-> 0, val |-> 0,
           ret |-> 0, res |-> FALSE, oob |-> FALSE, size0 |-> 0, cap0 |-> 0]

\* The process was aborted by an access past the end of an array.
Aborted == [NoCall EXCEPT !.name = "abort", !.oob = TRUE]

Running == op.name # "abort"

Init ==
    /\ vec = [v \in Vecs |-> Empty]
    /\ alive = {}
    /\ op = NoCall

\* The call `name` on object v returns, leaving v as W.
Return(name, v, W, idx, val, ret, oob) ==
    /\ vec' = [vec EXCEPT ![v] = W]
    /\ alive' = alive \cup {v}
    /\ op' = [NoCall EXCEPT !.name = name, !.vec = v, !.other = v, !.idx = idx,
                            !.val = val, !.ret = ret, !.oob = oob,
                            !.size0 = vec[v].size, !.cap0 = vec[v].capacity]

\* The call on v that involves a second object w returns, leaving them as
\* W[1] and W[2].
Return2(name, v, w, W, res, oob) ==
    /\ vec' = [x \in Vecs |-> IF x = v THEN W[1] ELSE IF x = w THEN W[2] ELSE vec[x]]
    /\ alive' = alive \cup {v}
    /\ op' = [NoCall EXCEPT !.name = name, !.vec = v, !.other = w, !.res = res,
                            !.oob = oob]

\* The call `name` on object v leaves by an exception the caller catches;
\* W is what the call leaves of v.
Throw(name, v, W, idx, val) ==
    /\ vec' = [vec EXCEPT ![v] = W]
    /\ UNCHANGED alive
    /\ op' = [NoCall EXCEPT !.name = name, !.vec = v, !.other = v, !.idx = idx,
                            !.val = val, !.res = TRUE,
                            !.size0 = vec[v].size, !.cap0 = vec[v].capacity]

\* The call touched memory past the end of an array and the process died.
Abort(oob) ==
    /\ oob
    /\ op' = Aborted
    /\ UNCHANGED <<vec, alive>>

\* Memory after v's array, as far as a load of n slots reaches.
Mem(v, n) == Adjacent(Need(vec[v].items, n))

\* The capacity Resize(n) leaves stays within the bound B.
Fits(V, n, B) == n > V.capacity => Max(n, V.capacity * 2) <= B

\* v may be constructed / is constructed.
Unborn(v) == Running /\ v \notin alive
Born(v) == Running /\ v \in alive

NewDefault(v) ==
    /\ Unborn(v)
    /\ Return("SimpleVector()", v, Empty, 0, 0, 0, FALSE)

NewSize(v, B) ==
    /\ Unborn(v)
    /\ \E n \in 0..B :
          Return("SimpleVector(size)", v, CtorSize(n), n, 0, 0, FALSE)

NewSizeValue(v, B) ==
    /\ Unborn(v)
    /\ \E n \in 0..B, value \in Values :
          Return("SimpleVector(size,value)", v, CtorSizeValue(n, value), n, value, 0, FALSE)

NewInitList(v, B) ==
    /\ Unborn(v)
    /\ \E init \in SeqsUpTo(B) :
          Return("SimpleVector(init)", v, CtorInitList(init), Len(init), 0, 0, FALSE)

NewReserve(v, B) ==
    /\ Unborn(v)
    /\ \E c \in 0..B :
          Return("SimpleVector(Reserve)", v, CtorReserve(c), c, 0, 0, FALSE)

NewCopy(v, w) ==
    /\ Unborn(v)
    /\ Born(w)
    /\ \E g \in Mem(w, vec[w].size) :
          \/ Return2("SimpleVector(copy)", v, w, <<CtorCopy(vec[w], g), vec[w]>>,
                     FALSE, LiveOob(vec[w]))
          \/ Abort(LiveOob(vec[w]))

NewMove(v, w) ==
    /\ Unborn(v)
    /\ Born(w)
    /\ Return2("SimpleVector(move)", v, w, CtorMove(vec[w]), FALSE, FALSE)

\* The object goes out of scope: its array is released.
Destroy(v) ==
    /\ Born(v)
    /\ vec' = [vec EXCEPT ![v] = Empty]
    /\ alive' = alive \ {v}
    /\ op' = [NoCall EXCEPT !.name = "~SimpleVector", !.vec = v, !.other = v]

DoAssign(v, w) ==
    /\ Born(v)
    /\ Born(w)
    /\ v # w
    /\ \E g \in Mem(w, vec[w].size) :
          \/ Return2("operator=", v, w,
                     <<Assign(vec[v], vec[w], v = w, g),
                       IF v = w THEN Assign(vec[v], vec[w], v = w, g) ELSE vec[w]>>,
                     FALSE, v # w /\ LiveOob(vec[w]))
          \/ Abort(v # w /\ LiveOob(vec[w]))

\* operator= with the object itself as right-hand side.
DoSelfAssign(v) ==
    /\ Born(v)
    /\ Return2("operator=", v, v,
               <<Assign(vec[v], vec[v], TRUE, <<>>), Assign(vec[v], vec[v], TRUE, <<>>)>>,
               FALSE, FALSE)

DoSwap(v, w) ==
    /\ Born(v)
    /\ Born(w)
    /\ v # w
    /\ Return2("swap", v, w, Swap(vec[v], vec[w]), FALSE, FALSE)

DoClear(v) ==
    /\ Born(v)
    /\ Return("Clear", v, Clear(vec[v]), 0, 0, 0, FALSE)

DoPopBack(v) ==
    /\ Born(v)
    /\ vec[v].size > 0
    /\ Return("PopBack", v, PopBack(vec[v]), 0, 0, 0, FALSE)

DoResize(v, B) ==
    /\ Born(v)
    /\ \E n \in 0..B, g \in Mem(v, vec[v].size) :
          /\ Fits(vec[v], n, B)
          /\ \/ Return("Resize", v, Resize(vec[v], n, g), n, 0, 0, ResizeOob(vec[v], n))
             \/ Abort(ResizeOob(vec[v], n))

DoReserve(v, B) ==
    /\ Born(v)
    /\ \E c \in 0..B, g \in Mem(v, vec[v].size) :
          \/ Return("Reserve", v, Reserve(vec[v], c, g), c, 0, 0,
                    c > vec[v].capacity /\ LiveOob(vec[v]))
          \/ Abort(c > vec[v].capacity /\ LiveOob(vec[v]))

DoPushBack(v, B) ==
    /\ Born(v)
    /\ Fits(vec[v], vec[v].size + 1, B)
    /\ \E item \in Values, g \in Mem(v, vec[v].size) :
          \/ Return("PushBack", v, PushBack(vec[v], item, g), 0, item, 0,
                    PushBackOob(vec[v]))
          \/ Abort(PushBackOob(vec[v]))

DoPushBackMove(v, B) ==
    /\ Born(v)
    /\ Fits(vec[v], vec[v].size + 1, B)
    /\ \E item \in Values, g \in Mem(v, vec[v].size) :
          \/ Return("PushBack&&", v, PushBackMove(vec[v], item, g), 0, item, 0,
                    PushBackOob(vec[v]))
          \/ Abort(PushBackOob(vec[v]))

DoInsert(v, B) ==
    /\ Born(v)
    /\ Fits(vec[v], vec[v].size + 1, B)
    /\ \E index \in 0..vec[v].size, value \in Values, g \in Mem(v, vec[v].size) :
          \/ Return("Insert", v, Insert(vec[v], index, value, g), index, value, index,
                    InsertOob(vec[v], index))
          \/ Abort(InsertOob(vec[v], index))

DoInsertMove(v, B) ==
    /\ Born(v)
    /\ Fits(vec[v], vec[v].size + 1, B)
    /\ \E index \in 0..vec[v].size, value \in Values, g \in Mem(v, vec[v].size) :
          \/ Return("Insert&&", v, InsertMove(vec[v], index, value, g), index, value,
                    index, InsertOob(vec[v], index))
          \/ Abort(InsertOob(vec[v], index))

DoErase(v) ==
    /\ Born(v)
    /\ \E index \in 0..(vec[v].size - 1), g \in Mem(v, vec[v].size) :
          \/ Return("Erase", v, Erase(vec[v], index, g), index, 0, index,
                    LiveOob(vec[v]))
          \/ Abort(LiveOob(vec[v]))

\* x = v[index]
DoIndex(v) ==
    /\ Born(v)
    /\ \E index \in 0..(vec[v].size - 1), g \in Mem(v, vec[v].size) :
          \/ Return("operator[]", v, vec[v], index, Index(vec[v], index, g), 0,
                    IndexOob(vec[v], index))
          \/ Abort(IndexOob(vec[v], index))

\* v[index] = value
DoIndexPut(v) ==
    /\ Born(v)
    /\ \E index \in 0..(vec[v].size - 1), value \in Values :
          \/ Return("operator[]=", v, IndexPut(vec[v], index, value), index, value, 0,
                    IndexOob(vec[v], index))
          \/ Abort(IndexOob(vec[v], index))

\* x = v.At(index), with any index up to B; res tells whether it threw.
DoAt(v, B) ==
    /\ Born(v)
    /\ \E index \in 0..B, g \in Mem(v, vec[v].size) :
          LET r == At(vec[v], index, g)
          IN  IF r.thrown
              THEN Throw("At", v, vec[v], index, 0)
              ELSE \/ Return("At", v, vec[v], index, r.value, 0, AtOob(vec[v], index))
                   \/ Abort(AtOob(vec[v], index))

\* v.At(index) = value, with any index up to B; res tells whether it threw.
DoAtPut(v, B) ==
    /\ Born(v)
    /\ \E index \in 0..B, value \in Values, g \in Mem(v, vec[v].size) :
          IF At(vec[v], index, g).thrown
          THEN Throw("At=", v, AtPut(vec[v], index, value), index, value)
          ELSE \/ Return("At=", v, AtPut(vec[v], index, value), index, value, 0,
                         AtOob(vec[v], index))
               \/ Abort(AtOob(vec[v], index))

DoEqual(v, w) ==
    /\ Born(v)
    /\ Born(w)
    /\ \E gl \in Mem(v, vec[v].size), gr \in Mem(w, vec[v].size) :
          \/ Return2("==", v, w, <<vec[v], vec[w]>>,
                     Equal(vec[v], vec[w], gl, gr), EqualOob(vec[v], vec[w]))
          \/ Abort(EqualOob(vec[v], vec[w]))

DoNotEqual(v, w) ==
    /\ Born(v)
    /\ Born(w)
    /\ \E gl \in Mem(v, vec[v].size), gr \in Mem(w, vec[v].size) :
          \/ Return2("!=", v, w, <<vec[v], vec[w]>>,
                     NotEqual(vec[v], vec[w], gl, gr), EqualOob(vec[v], vec[w]))
          \/ Abort(EqualOob(vec[v], vec[w]))

DoLess(v, w) ==
    /\ Born(v)
    /\ Born(w)
    /\ \E gl \in Mem(v, vec[v].size), gr \in Mem(w, vec[w].size) :
          \/ Return2("<", v, w, <<vec[v], vec[w]>>,
                     Less(vec[v], vec[w], gl, gr), LessOob(vec[v], vec[w]))
          \/ Abort(LessOob(vec[v], vec[w]))

DoLessEq(v, w) ==
    /\ Born(v)
    /\ Born(w)
    /\ \E gl \in Mem(v, vec[v].size), gr \in Mem(w, vec[w].size) :
          \/ Return2("<=", v, w, <<vec[v], vec[w]>>,
                     LessEq(vec[v], vec[w], gl, gr), LessOob(vec[w], vec[v]))
          \/ Abort(LessOob(vec[w], vec[v]))

DoGreater(v, w) ==
    /\ Born(v)
    /\ Born(w)
    /\ \E gl \in Mem(v, vec[v].size), gr \in Mem(w, vec[w].size) :
          \/ Return2(">", v, w, <<vec[v], vec[w]>>,
                     Greater(vec[v], vec[w], gl, gr), LessOob(vec[w], vec[v]))
          \/ Abort(LessOob(vec[w], vec[v]))

DoGreaterEq(v, w) ==
    /\ Born(v)
    /\ Born(w)
    /\ \E gl \in Mem(v, vec[v].size), gr \in Mem(w, vec[w].size) :
          \/ Return2(">=", v, w, <<vec[v], vec[w]>>,
                     GreaterEq(vec[v], vec[w], gl, gr), LessOob(vec[v], vec[w]))
          \/ Abort(LessOob(vec[v], vec[w]))

\* A program that uses the one object "a".
Next ==
    \/ NewDefault("a")
    \/ NewSize("a", MaxCap)
    \/ NewSizeValue("a", MaxCap)
    \/ NewInitList("a", MaxCap)
    \/ NewReserve("a", MaxCap)
    \/ Destroy("a")
    \/ DoSelfAssign("a")
    \/ DoClear("a")
    \/ DoPopBack("a")
    \/ DoResize("a", MaxCap)
    \/ DoReserve("a", MaxCap)
    \/ DoPushBack("a", MaxCap)
    \/ DoPushBackMove("a", MaxCap)
    \/ DoInsert("a", MaxCap)
    \/ DoInsertMove("a", MaxCap)
    \/ DoErase("a")
    \/ DoIndex("a")
    \/ DoIndexPut("a")
    \/ DoAt("a", MaxCap)
    \/ DoAtPut("a", MaxCap)

Spec == Init /\ [][Next]_vars

\* What a call of a member function that involves no second object may
\* leave of V, capacities staying within B: the vector when the call
\* returns (v), whether the call touched memory past the array (oob) and
\* the values it stored there (past).
Calls(V, B) ==
    LET G == Adjacent(Need(V.items, V.size))
        Grow == {x \in Values : Fits(V, V.size + 1, B)}
        Live == 0..(V.size - 1)
    IN  {[v |-> Clear(V), oob |-> FALSE, past |-> {}]}
        \cup {[v |-> Assign(V, V, TRUE, <<>>), oob |-> FALSE, past |-> {}]}
        \cup {[v |-> PopBack(V), oob |-> FALSE, past |-> {}] :
                 n \in {n \in {0} : V.size > 0}}
        \cup {[v |-> Resize(V, n, g), oob |-> ResizeOob(V, n),
               past |-> ResizePast(V, n)] :
                 n \in {n \in 0..B : Fits(V, n, B)}, g \in G}
        \cup {[v |-> Reserve(V, c, g), oob |-> c > V.capacity /\ LiveOob(V),
               past |-> {}] : c \in 0..B, g \in G}
        \cup {[v |-> PushBack(V, x, g), oob |-> PushBackOob(V),
               past |-> PushBackPast(V, x)] : x \in Grow, g \in G}
        \cup {[v |-> PushBackMove(V, x, g), oob |-> PushBackOob(V),
               past |-> PushBackPast(V, x)] : x \in Grow, g \in G}
        \cup UNION {{[v |-> Insert(V, index, x, g), oob |-> InsertOob(V, index),
                      past |-> InsertPast(V, index, x, g)] :
                        x \in Grow, g \in G} : index \in 0..V.size}
        \cup UNION {{[v |-> InsertMove(V, index, x, g), oob |-> InsertOob(V, index),
                      past |-> InsertPast(V, index, x, g)] :
                        x \in Grow, g \in G} : index \in 0..V.size}
        \cup {[v |-> Erase(V, index, g), oob |-> LiveOob(V), past |-> {}] :
                 index \in Live, g \in G}
        \cup {[v |-> V, oob |-> IndexOob(V, index), past |-> {}] : index \in Live}
        \cup {[v |-> IndexPut(V, index, x), oob |-> IndexOob(V, index),
               past |-> IndexPast(V, index, x)] : index \in Live, x \in Values}
        \cup {[v |-> AtPut(V, index, x), oob |-> AtOob(V, index),
               past |-> IF AtOob(V, index) THEN {x} ELSE {}] :
                 index \in 0..B, x \in Values}

\* Some member function that involves no second object is called on v.  A
\* store past the end of v's array is a store to whatever the allocator
\* placed there: memory of no object, or a slot of the other object's array.
Use(v) ==
    /\ Born(v)
    /\ \E r \in Calls(vec[v], MaxPair) :
          \/ /\ vec' = [vec EXCEPT ![v] = r.v]
             /\ UNCHANGED alive
             /\ op' = [NoCall EXCEPT !.name = "call", !.vec = v, !.other = v,
                                     !.oob = r.oob]
          \/ \E w \in alive \ {v}, x \in r.past :
                \E k \in 1..Len(vec[w].items) :
                   /\ vec' = [vec EXCEPT ![v] = r.v, ![w].items[k] = x]
                   /\ UNCHANGED alive
                   /\ op' = [NoCall EXCEPT !.name = "call", !.vec = v, !.other = v,
                                           !.oob = r.oob]
          \/ Abort(r.oob)

\* A program that uses the two objects "a" and "b".
NextPair ==
    \/ \E v \in Vecs :
        \/ NewDefault(v)
        \/ NewSize(v, MaxPair)
        \/ NewSizeValue(v, MaxPair)
        \/ NewInitList(v, MaxPair)
        \/ NewReserve(v, MaxPair)
        \/ Destroy(v)
        \/ Use(v)
    \/ \E v \in Vecs : \E w \in Vecs \ {v} :
        \/ NewCopy(v, w)
        \/ NewMove(v, w)
        \/ DoAssign(v, w)
        \/ DoSwap(v, w)
        \/ DoEqual(v, w)
        \/ DoNotEqual(v, w)

SpecPair == Init /\ [][NextPair]_vars

\* A program that uses the two objects and also compares them by order.
NextOrder ==
    \/ NextPair
    \/ \E v \in Vecs : \E w \in Vecs \ {v} :
        \/ DoLess(v, w)
        \/ DoLessEq(v, w)
        \/ DoGreater(v, w)
        \/ DoGreaterEq(v, w)

SpecOrder == Init /\ [][NextOrder]_vars

(***************************************************************************)
(* Properties.                                                             *)
(***************************************************************************)

\* The sequences the live range [0, size) of V may read as: a slot inside
\* the array reads as what it holds, a slot past the array as any value.
Contents(V) ==
    {s \in [1..V.size -> Values] :
        \A i \in 1..V.size : i <= Len(V.items) => s[i] = V.items[i]}

\* s without its element at (0-based) position i.
RemoveAt(s, i) == [k \in 1..(Len(s) - 1) |-> IF k <= i THEN s[k] ELSE s[k + 1]]

\* s with x put in before (0-based) position i.
InsertAt(s, i, x) ==
    [k \in 1..(Len(s) + 1) |-> IF k <= i THEN s[k] ELSE IF k = i + 1 THEN x ELSE s[k - 1]]

\* Same size and, element by element, the same live range.
SameLive(V, W) == V.size = W.size /\ Contents(V) = Contents(W)

\* C1: in every reachable state the number of slots allocated in a
\* vector's array is at least its GetCapacity().
C1_ArrayCoversCapacity ==
    \A v \in alive : Len(vec[v].items) >= vec[v].capacity

\* C2: in every reachable state 0 <= GetSize() <= GetCapacity() holds for
\* every vector, moved-from and swapped ones included.
C2_SizeWithinCapacity ==
    \A v \in alive : 0 <= vec[v].size /\ vec[v].size <= vec[v].capacity

\* Two vectors of different sizes and capacities have just been swapped,
\* one of them with spare capacity.
C2_Witness ==
    /\ op.name = "swap"
    /\ vec["a"].size # vec["b"].size
    /\ vec["a"].capacity # vec["b"].capacity
    /\ \E v \in Vecs : vec[v].size < vec[v].capacity

\* C3: a == b is true if and only if both have the same size and the same
\* elements, whatever their capacities (so appending to either of two equal
\* vectors makes a == b false, whichever operand is the longer one).
C3_EqualIffSameLive ==
    (op.name = "==" /\ ~op.oob) =>
        (op.res <=> SameLive(vec[op.vec], vec[op.other]))

\* C4: after copy construction or copy assignment the destination has the
\* source's size, capacity and live elements, and an array of
\* GetCapacity() slots of its own.
C4_CopyMatchesSource ==
    (op.name \in {"SimpleVector(copy)", "operator="} /\ op.vec # op.other /\ ~op.oob) =>
        LET dst == vec[op.vec]
            src == vec[op.other]
        IN  /\ dst.size = src.size
            /\ dst.capacity = src.capacity
            /\ Contents(dst) = Contents(src)
            /\ Len(dst.items) = src.capacity

\* C5: Erase leaves GetCapacity() equal to the new GetSize(), the array
\* holding exactly that many slots.
C5_EraseShrinksToSize ==
    op.name = "Erase" =>
        /\ vec[op.vec].capacity = vec[op.vec].size
        /\ Len(vec[op.vec].items) = vec[op.vec].size

\* C6: Erase(begin() + i) removes the element at i and keeps the others in
\* order, decrements the size by one and returns begin() + i; the result
\* lies within the new array.
C6_EraseRemovesOne ==
    [][op'.name = "Erase" =>
        LET old == vec[op'.vec]
            new == vec'[op'.vec]
        IN  /\ new.size = old.size - 1
            /\ op'.ret = op'.idx
            /\ new.size <= Len(new.items)
            /\ Contents(new) \subseteq {RemoveAt(s, op'.idx) : s \in Contents(old)}]_vars

\* An element that is not the last one of three has been erased from a
\* vector whose elements are not all the same.
C6_Witness ==
    /\ op.name = "Erase"
    /\ vec["a"].size = 2
    /\ op.idx < vec["a"].size
    /\ vec["a"].size <= Len(vec["a"].items)
    /\ vec["a"].items[1] # vec["a"].items[2]

\* C7: Insert(begin() + i, v), either overload, puts v in before the
\* element at i and keeps the others in order, increments the size by one
\* and returns begin() + i.
C7_InsertAddsOne ==
    [][op'.name \in {"Insert", "Insert&&"} =>
        LET old == vec[op'.vec]
            new == vec'[op'.vec]
        IN  /\ new.size = old.size + 1
            /\ op'.ret = op'.idx
            /\ Contents(new)
                 \subseteq {InsertAt(s, op'.idx, op'.val) : s \in Contents(old)}]_vars

\* C8: PushBack(x), either overload, increments the size by one, keeps the
\* elements [0, old size) and makes x the last element.
C8_PushBackAppends ==
    [][op'.name \in {"PushBack", "PushBack&&"} =>
        LET old == vec[op'.vec]
            new == vec'[op'.vec]
        IN  /\ new.size = old.size + 1
            /\ Contents(new) \subseteq {Append(s, op'.val) : s \in Contents(old)}]_vars

\* C9: PushBack or Insert on a full vector of capacity c leaves capacity
\* 2 * c (1 when c = 0); on a vector that is not full they leave the
\* capacity as it was.
C9_GrowthDoubles ==
    [][op'.name \in {"PushBack", "PushBack&&", "Insert", "Insert&&"} =>
        LET old == vec[op'.vec]
            new == vec'[op'.vec]
        IN  IF old.size = old.capacity
            THEN new.capacity = (IF old.capacity > 0 THEN 2 * old.capacity ELSE 1)
            ELSE new.capacity = old.capacity]_vars

\* The third PushBack on a vector that grew 0, 1, 2 has just made it 4.
C9_Witness ==
    /\ op.name = "PushBack"
    /\ vec["a"].size = 3
    /\ vec["a"].capacity = 4
    /\ Len(vec["a"].items) = 4

\* Every call the claim names does on V what it does on a vector that was
\* just default-constructed, or nothing.
FreshLike(V) ==
    /\ \A x \in Values :
          /\ PushBack(V, x, <<>>) = PushBack(Empty, x, <<>>)
          /\ PushBackMove(V, x, <<>>) = PushBackMove(Empty, x, <<>>)
          /\ Insert(V, 0, x, <<>>) = Insert(Empty, 0, x, <<>>)
          /\ InsertMove(V, 0, x, <<>>) = InsertMove(Empty, 0, x, <<>>)
    /\ \A n \in 1..MaxPair :
          /\ Resize(V, n, <<>>) = Resize(Empty, n, <<>>)
          /\ Reserve(V, n, <<>>) = Reserve(Empty, n, <<>>)
          /\ ResizeOob(V, n) = ResizeOob(Empty, n)
    /\ Resize(V, 0, <<>>) = V
    /\ Reserve(V, 0, <<>>) = V
    /\ Clear(V) = V
    /\ CtorCopy(V, <<>>) = CtorCopy(Empty, <<>>)
    /\ PushBackOob(V) = PushBackOob(Empty)
    /\ InsertOob(V, 0) = InsertOob(Empty, 0)
    /\ ~LiveOob(V)

\* C10: move construction gives the new vector the source's size, capacity
\* and live elements and leaves the source with size 0 and valid: within
\* the invariants, and behaving from then on as an empty vector does.
C10_MoveLeavesSourceFresh ==
    [][op'.name = "SimpleVector(move)" =>
        LET old == vec[op'.other]
            dst == vec'[op'.vec]
            src == vec'[op'.other]
        IN  /\ dst.size = old.size
            /\ dst.capacity = old.capacity
            /\ Contents(dst) = Contents(old)
            /\ src.size = 0
            /\ src.size <= src.capacity
            /\ src.capacity <= Len(src.items)
            /\ FreshLike(src)]_vars

\* A vector with elements has just been moved from: the new vector holds
\* them, the source is left with a scratch array.
C10_Witness ==
    /\ op.name = "SimpleVector(move)"
    /\ vec[op.vec].size = 2
    /\ vec[op.vec].items[1] # vec[op.vec].items[2]
    /\ Len(vec[op.other].items) = 2
    /\ vec[op.other].size = 0

\* C11: Insert(begin() + i, v) followed at once by Erase(begin() + i) gives
\* back the size and the live elements the vector had before the Insert
\* (the capacity may differ).
C11_InsertThenEraseRestores ==
    [][op'.name \in {"Insert", "Insert&&"} =>
        LET old == vec[op'.vec]
            new == vec'[op'.vec]
        IN  \A g \in Adjacent(Need(new.items, new.size)) :
               LET back == Erase(new, op'.idx, g)
               IN  /\ back.size = old.size
                   /\ Contents(back) \subseteq Contents(old)]_vars

\* C12: Resize(n) with size < n <= capacity sets the size to n, sets the
\* elements at [old size, n) to the default value and changes nothing else:
\* the elements at [0, old size), the capacity and every slot at an index
\* >= n stay as they were, and no slot outside the array is stored to.
C12_ResizeWithinCapacity ==
    [][(op'.name = "Resize" /\ op'.size0 < op'.idx /\ op'.idx <= op'.cap0) =>
        LET old == vec[op'.vec]
            new == vec'[op'.vec]
            n == op'.idx
        IN  /\ new.size = n
            /\ new.capacity = old.capacity
            /\ Len(new.items) = Len(old.items)
            /\ \A i \in 1..Len(new.items) :
                  new.items[i] = IF old.size < i /\ i <= n THEN Default
                                 ELSE old.items[i]
            /\ ~op'.oob]_vars

\* n copies of the default value.
Defaults(n) == [i \in 1..n |-> Default]

\* C13: Resize(n) with n > capacity sets the capacity to
\* max(n, 2 * old capacity) and the size to n, keeps the elements at
\* [0, old size) and sets those at [old size, n) to the default value.
C13_ResizeBeyondCapacity ==
    [][(op'.name = "Resize" /\ op'.idx > op'.cap0) =>
        LET old == vec[op'.vec]
            new == vec'[op'.vec]
            n == op'.idx
        IN  /\ new.capacity = Max(n, 2 * old.capacity)
            /\ new.size = n
            /\ Contents(new) \subseteq
                  {s \o Defaults(n - old.size) : s \in Contents(old)}]_vars

\* Resize(3) has just grown a vector of capacity 2 that held a non-default
\* element to capacity 4.
C13_Witness ==
    /\ op.name = "Resize"
    /\ op.idx = 3
    /\ op.cap0 = 2
    /\ op.size0 = 2
    /\ ~op.oob
    /\ vec["a"].capacity = 4
    /\ vec["a"].items = <<0, 1, 0, 0>>

\* C14: Reserve(c) with c <= capacity changes nothing; with c > capacity it
\* sets the capacity to exactly c and leaves the size and the live elements
\* as they were.
C14_ReserveKeepsContent ==
    [][op'.name = "Reserve" =>
        LET old == vec[op'.vec]
            new == vec'[op'.vec]
            c == op'.idx
        IN  IF c <= old.capacity
            THEN new = old
            ELSE /\ new.capacity = c
                 /\ new.size = old.size
                 /\ Contents(new) \subseteq Contents(old)]_vars

\* Reserve(4) has just grown a vector of capacity 2 that holds two
\* different elements.
C14_Witness ==
    /\ op.name = "Reserve"
    /\ op.idx = 4
    /\ op.cap0 = 2
    /\ ~op.oob
    /\ vec["a"].size = 2
    /\ vec["a"].capacity = 4
    /\ vec["a"].items[1] # vec["a"].items[2]

\* C15: Resize(n) with n <= size, PopBack on a non-empty vector and Clear
\* change only the size (to n, to size - 1, to 0): the capacity, the array
\* and so the remaining live elements stay as they were.
C15_ShrinkChangesOnlySize ==
    [][(\/ op'.name = "Resize" /\ op'.idx <= op'.size0
        \/ op'.name \in {"PopBack", "Clear"}) =>
        LET old == vec[op'.vec]
            new == vec'[op'.vec]
            n == IF op'.name = "Resize" THEN op'.idx
                 ELSE IF op'.name = "PopBack" THEN old.size - 1
                 ELSE 0
        IN  /\ new.size = n
            /\ new.capacity = old.capacity
            /\ new.items = old.items
            /\ \A s \in Contents(new) : \E t \in Contents(old) :
                  s = SubSeq(t, 1, n)]_vars

\* Resize(1) has just shrunk a vector of three elements whose first
\* element is not the default value.
C15_Witness ==
    /\ op.name = "Resize"
    /\ op.idx = 1
    /\ op.size0 = 3
    /\ vec["a"].size = 1
    /\ vec["a"].capacity >= 3
    /\ vec["a"].items[1] = 1

\* C16: At(i) throws std::out_of_range exactly when i >= GetSize(); when it
\* throws the vector is left as it was, and otherwise it yields the element
\* at index i, the vector left as it was by the read.
C16_AtChecksSize ==
    [][op'.name \in {"At", "At="} =>
        LET old == vec[op'.vec]
            new == vec'[op'.vec]
            i == op'.idx
        IN  /\ op'.res <=> i >= old.size
            /\ op'.res => new = old
            /\ (~op'.res /\ op'.name = "At") =>
                  /\ new = old
                  /\ op'.val \in {s[i + 1] : s \in Contents(old)}]_vars

\* At has just thrown for an index that is within the capacity but not
\* within the size.
C16_Witness ==
    /\ op.name = "At"
    /\ op.res
    /\ op.idx >= vec["a"].size
    /\ op.idx < vec["a"].capacity
    /\ op.idx < Len(vec["a"].items)

\* The vectors a second run may hold in place of V when the two runs differ
\* only in slots of the array at indices >= size.
StaleVariants(V) ==
    {[V EXCEPT !.items = t] :
        t \in {t \in [1..Len(V.items) -> Values] :
                  \A i \in 1..Len(V.items) : i <= V.size => t[i] = V.items[i]}}

\* What the calls on one vector V yield when W stands in its place: the
\* results of At and operator[], and the live elements every mutating call
\* leaves; g is the memory after the array, B the largest capacity.
SameResults(V, W, g, B) ==
    /\ \A i \in 0..B : At(V, i, g) = At(W, i, g)
    /\ \A i \in 0..(V.size - 1) : Index(V, i, g) = Index(W, i, g)
    /\ \A n \in 0..B :
          /\ Contents(Resize(V, n, g)) = Contents(Resize(W, n, g))
          /\ Contents(Reserve(V, n, g)) = Contents(Reserve(W, n, g))
    /\ \A x \in Values :
          /\ Contents(PushBack(V, x, g)) = Contents(PushBack(W, x, g))
          /\ \A i \in 0..V.size :
                Contents(Insert(V, i, x, g)) = Contents(Insert(W, i, x, g))
    /\ \A i \in 0..(V.size - 1) :
          Contents(Erase(V, i, g)) = Contents(Erase(W, i, g))

\* C17: the slots at indices >= size are never read as content: two runs
\* that differ only in such slots get the same results from ==, !=, <, <=,
\* >, >=, At, operator[] and the same live elements from every mutating
\* call (the memory after the arrays being the same in both runs).
C17_StaleSlotsUnobservable ==
    \A v \in alive : \A w \in alive \ {v} :
        \A V2 \in StaleVariants(vec[v]), W2 \in StaleVariants(vec[w]) :
           \A gl \in Mem(v, Max(vec[v].size, vec[w].size)),
              gr \in Mem(w, Max(vec[v].size, vec[w].size)) :
              /\ Equal(vec[v], vec[w], gl, gr) = Equal(V2, W2, gl, gr)
              /\ NotEqual(vec[v], vec[w], gl, gr) = NotEqual(V2, W2, gl, gr)
              /\ Less(vec[v], vec[w], gl, gr) = Less(V2, W2, gl, gr)
              /\ LessEq(vec[v], vec[w], gl, gr) = LessEq(V2, W2, gl, gr)
              /\ Greater(vec[v], vec[w], gl, gr) = Greater(V2, W2, gl, gr)
              /\ GreaterEq(vec[v], vec[w], gl, gr) = GreaterEq(V2, W2, gl, gr)
              /\ SameResults(vec[v], V2, gl, MaxPair)

\* C18: once b is a copy of a (copy constructor or copy assignment) the two
\* share no storage: a mutating call on either (here the first one after
\* the copy) leaves the other's size, capacity and live elements as they
\* were.
C18_CopyIsIndependent ==
    [][(/\ op.name \in {"SimpleVector(copy)", "operator="}
        /\ op.vec # op.other
        /\ op'.name = "call") =>
        \A w \in {op.vec, op.other} \ {op'.vec} :
            /\ vec'[w].size = vec[w].size
            /\ vec'[w].capacity = vec[w].capacity
            /\ Contents(vec'[w]) = Contents(vec[w])]_vars

\* C19: Insert on a full vector (capacity 0 and 1 included) stores only to
\* slots below the new capacity: the suffix shift ends within the new array.
C19_InsertShiftWithinArray ==
    [][(op'.name \in {"Insert", "Insert&&"} /\ op'.size0 = op'.cap0) =>
        /\ ShiftEnd(vec[op'.vec]) <= vec'[op'.vec].capacity
        /\ ShiftEnd(vec[op'.vec]) <= Len(vec'[op'.vec].items)]_vars

\* The lexicographic order on sequences: s is a proper prefix of t, or s
\* has the smaller element at the first position where they differ.
LexBefore(s, t) ==
    \E k \in 1..Len(t) :
        /\ \A i \in 1..(k - 1) : i <= Len(s) /\ s[i] = t[i]
        /\ k > Len(s) \/ (k <= Len(s) /\ s[k] < t[k])

\* C20: the six comparisons agree with one another: exactly one of a < b,
\* a == b, a > b holds; a == b implies b == a; != is the negation of ==;
\* <= is the negation of b < a (and >= of a < b); < is the lexicographic
\* order of the live ranges.
C20_ComparisonsConsistent ==
    \A v \in alive : \A w \in alive \ {v} :
        \A gl \in Mem(v, Max(vec[v].size, vec[w].size)),
           gr \in Mem(w, Max(vec[v].size, vec[w].size)) :
           LET a == vec[v]
               b == vec[w]
               lt == Less(a, b, gl, gr)
               eq == Equal(a, b, gl, gr)
               gt == Greater(a, b, gl, gr)
           IN  /\ Cardinality({x \in {"<", "==", ">"} :
                      \/ x = "<" /\ lt
                      \/ x = "==" /\ eq
                      \/ x = ">" /\ gt}) = 1
               /\ eq => Equal(b, a, gr, gl)
               /\ NotEqual(a, b, gl, gr) = ~eq
               /\ LessEq(a, b, gl, gr) = ~Less(b, a, gr, gl)
               /\ GreaterEq(a, b, gl, gr) = ~lt
               /\ lt = LexBefore(SubSeq(a.items \o gl, 1, a.size),
                                 SubSeq(b.items \o gr, 1, b.size))

====
